---- MODULE Spec2Model ----
(***************************************************************************)
(* The ACK sequencing core of the memory queue:                            *)
(*   libbeat/publisher/queue/memqueue/ackloop.go                           *)
(*     ackLoop.run, handleBatchSig, collectAcked, processACK               *)
(*     callbackWorker.run and the wave-runner goroutines it starts         *)
(* The run loop, the consumers and the batch list are collaborators whose  *)
(* code is outside the sources at hand; they are modelled at the           *)
(* interface the ack loop uses.                                            *)
(* The generic list of libbeat/common/fifo/fifo.go is modelled beside it,   *)
(* with a user that adds, reads, removes and concatenates.                 *)
(***************************************************************************)
EXTENDS Integers, Sequences, FiniteSets, TLC

\* ---------------------------------------------------------------- bounds
MaxBatches == 2
\* the nodes the fifo package may allocate
MaxNodes == 4

\* make(chan []func(), 5)
CallbackChanCap == 5

Producers == {1, 2}
\* entry.producer == nil
NoProducer == 0
\* a nil *batch
NIL == 0

VARIABLES
    entries,             \* the shared buffer: entries[k] = [producer, producerID]
    lastACK,             \* producer.state.lastACK, per producer
    ackCallback,         \* broker.ackCallback != nil
    batches,             \* every batch created so far: [start, count]
    next,                \* batch.next, per batch
    doneChan,            \* batch.doneChan holds the completion signal
    consumedBatches,     \* run loop: batches created and not yet sent on consumedChan
    ctxDone,             \* broker.ctx is cancelled
    pendingBatches,      \* ackLoop.pendingBatches
    seqpc,               \* where ackLoop.run is
    ackedBatches,        \* handleBatchSig's local list
    N,                   \* processACK's N
    batchCount,          \* processACK's batchCount
    ackCallbacks,        \* processACK's ackCallbacks
    deleted,             \* values the run loop received from deleteChan
    released,            \* batches passed to releaseBatch, in order
    callbackChan,        \* callbackWorker.callbackChan contents
    callbackChanClosed,  \* close(callbackChan) has run
    workerpc,            \* callbackWorker.run: "run" or "exited"
    pendingCallbacks,    \* callbackWorker.run's pendingCallbacks
    callbackInProgress,  \* callbackWorker.run's callbackInProgress
    runners,             \* the wave-runner goroutines alive
    \* history
    appendOrder,         \* batches in the order they joined pendingBatches
    advLog,              \* one record per handleBatchSig call
    aggLog,              \* calls of broker.ackCallback
    ackWrites,           \* assignments to lastACK
    submitted,           \* waves sent on callbackChan, in order
    cbStarted,           \* producer callbacks started, in order
    cbReturned,          \* how many of them returned
    unblocked,           \* calls of broker.unblockCPU
    doneEarly,           \* batches completed while an earlier batch was not
    published,           \* the producer of each entry when it was published
    \* package fifo
    heap,                \* the nodes allocated: heap[n] = [next, value]
    f,                   \* a FIFO: [first, last]
    otherList,           \* a second FIFO, built to be passed to f.Concat
    moved,               \* other was passed to f.Concat and not replaced since
    fRef,                \* the sequence f stands for
    otherRef,            \* the sequence other stood for when last its owner used it
    got,                 \* what the last First or ConsumeFirst returned
    want                 \* the oldest element of fRef at that call

envVars == <<entries, lastACK, ackCallback, batches, next, doneChan, consumedBatches, ctxDone>>
seqVars == <<pendingBatches, seqpc, ackedBatches, N, batchCount, ackCallbacks, deleted, released>>
cwVars == <<callbackChan, callbackChanClosed, workerpc, pendingCallbacks, callbackInProgress, runners>>
histVars == <<appendOrder, advLog, aggLog, ackWrites, submitted, cbStarted, cbReturned, unblocked, doneEarly, published>>
fifoVars == <<heap, f, otherList, moved, fRef, otherRef, got, want>>
vars == <<envVars, seqVars, cwVars, histVars, fifoVars>>

\* ---------------------------------------------------------------- helpers
RECURSIVE SumSeq(_)
SumSeq(s) == IF s = <<>> THEN 0 ELSE Head(s) + SumSeq(Tail(s))

RECURSIVE Flatten(_)
Flatten(ss) == IF ss = <<>> THEN <<>> ELSE Head(ss) \o Flatten(Tail(ss))

IsPrefix(s, t) == Len(s) <= Len(t) /\ SubSeq(t, 1, Len(s)) = s

Range(s) == {s[i] : i \in DOMAIN s}

\* F at the value of v: v is evaluated once and F applied to the result
Then(v, F(_)) == CHOOSE r \in {F(t) : t \in {v}} : TRUE

\* ---------------------------------------------------------------- batchList
\* A batchList is a pair of pointers into the batches, linked through batch.next.
EmptyList == [head |-> NIL, tail |-> NIL]

empty(l) == l.head = NIL

\* nextBatchChannel: the head's doneChan, or a nil channel for the empty list
nextBatchChannel(l) == l.head

\* append: [list, next] after l.append(b)
append(nx, l, b) ==
    IF l.head = NIL
    THEN [list |-> [head |-> b, tail |-> b], next |-> nx]
    ELSE [list |-> [head |-> l.head, tail |-> b], next |-> [nx EXCEPT ![l.tail] = b]]

\* prepend: [list, next] after l.prepend(b)
prepend(nx, l, b) ==
    [list |-> [head |-> b, tail |-> IF l.tail = NIL THEN b ELSE l.tail],
     next |-> [nx EXCEPT ![b] = l.head]]

\* concat: [list, next] after l.concat(&other)
concat(nx, l, other) ==
    IF other.head = NIL THEN [list |-> l, next |-> nx]
    ELSE IF l.head = NIL THEN [list |-> other, next |-> nx]
    ELSE [list |-> [head |-> l.head, tail |-> other.tail],
          next |-> [nx EXCEPT ![l.tail] = other.head]]

\* pop: [list, next, batch] after batch := l.pop() on a non-empty list
pop(nx, l) ==
    LET ch == l.head
        h == nx[ch]
    IN [list |-> [head |-> h, tail |-> IF h = NIL THEN NIL ELSE l.tail],
        next |-> [nx EXCEPT ![ch] = NIL],
        batch |-> ch]

\* reverse: tmp := *l; *l = batchList{}; for !tmp.empty() { l.prepend(tmp.pop()) }
\* s = [tmp, list, next]
reverseStep(s) ==
    LET p == pop(s.next, s.tmp)
        q == prepend(p.next, s.list, p.batch)
    IN [tmp |-> p.list, list |-> q.list, next |-> q.next]

RECURSIVE reverseLoop(_)
reverseLoop(s) ==
    IF empty(s.tmp) THEN s ELSE Then(reverseStep(s), LAMBDA t : reverseLoop(t))

\* [list, next] after l.reverse()
reverse(nx, l) == reverseLoop([tmp |-> l, list |-> EmptyList, next |-> nx])

\* the batches of a list, front to back
RECURSIVE ListFrom(_, _)
ListFrom(nx, b) == IF b = NIL THEN <<>> ELSE <<b>> \o ListFrom(nx, nx[b])

ListSeq(nx, l) == ListFrom(nx, l.head)

\* ---------------------------------------------------------------- the buffer
\* Publish gives the k-th entry of a producer the id k; an entry whose producer
\* takes no acknowledgements carries no producer reference.
MkEntries(ps) ==
    [k \in 1..Len(ps) |->
        [producer |-> ps[k],
         producerID |-> IF ps[k] = NoProducer THEN 0
                        ELSE Cardinality({j \in 1..k : ps[j] = ps[k]})]]

\* the buffers the queue starts with: the single-producer buffer of entries
\* 1..5, and a buffer of two producers with an entry of a producer that takes
\* no acknowledgements
Buffers == {<<1, 1, 1, 1, 1>>, <<1, 2, 0, 1>>}

\* the entries batch b views, as indices into the buffer, first to last
BatchEntries(b) == [i \in 1..batches[b].count |-> batches[b].start + i - 1]

\* the batches popped by collectAcked so far, in the order they were popped
Retired == Flatten([k \in 1..Len(advLog) |-> advLog[k].batches])

\* ---------------------------------------------------------------- collectAcked
\* s = [acked, pending, next]
\* ackedBatches.append(l.pendingBatches.pop())
collectStep(s) ==
    LET p == pop(s.next, s.pending)
        a == append(p.next, s.acked, p.batch)
    IN [acked |-> a.list, pending |-> p.list, next |-> a.next]

\* the loop of collectAcked without the receive from acks.doneChan
RECURSIVE collectLoopAll(_, _)
collectLoopAll(s, dc) ==
    IF empty(s.pending) THEN s
    ELSE Then(collectStep(s), LAMBDA t : collectLoopAll(t, dc))

\* for !l.pendingBatches.empty() && !done { select { case <-acks.doneChan: ... default: done = true } }
RECURSIVE collectLoop(_, _)
collectLoop(s, dc) ==
    IF empty(s.pending) \/ ~dc[s.pending.head] THEN s
    ELSE Then(collectStep(s), LAMBDA t : collectLoop(t, dc))

\* collectAcked that takes the head alone
collectAckedHeadOnly(nx, pending, dc) ==
    collectStep([acked |-> EmptyList, pending |-> pending, next |-> nx])

\* [acked, pending, next] after ackedBatches := l.collectAcked()
collectAcked(nx, pending, dc) ==
    Then(collectStep([acked |-> EmptyList, pending |-> pending, next |-> nx]),
         LAMBDA t : collectLoop(t, dc))

\* ---------------------------------------------------------------- processACK
\* One iteration of the inner loop of processACK on entries[k].
\* st = [entries, lastACK, cbs, writes]
\* neither the check against lastACK nor the clearing of entry.producer
ackEntryNoDedup(st, k) ==
    LET e == st.entries[k]
        p == e.producer
    IN IF p = NoProducer THEN st
       ELSE [entries |-> st.entries,
             lastACK |-> [st.lastACK EXCEPT ![p] = e.producerID],
             cbs |-> Append(st.cbs, [cb |-> p, count |-> e.producerID - st.lastACK[p]]),
             writes |-> Append(st.writes, [producer |-> p, old |-> st.lastACK[p], new |-> e.producerID])]

\* the delta taken as one entry, whatever lies between lastACK and the id
ackEntryOne(st, k) ==
    LET e == st.entries[k]
        p == e.producer
    IN IF p = NoProducer THEN st
       ELSE IF e.producerID <= st.lastACK[p]
       THEN [st EXCEPT !.entries[k].producer = NoProducer]
       ELSE [entries |-> [st.entries EXCEPT ![k].producer = NoProducer],
             lastACK |-> [st.lastACK EXCEPT ![p] = e.producerID],
             cbs |-> Append(st.cbs, [cb |-> p, count |-> 1]),
             writes |-> Append(st.writes, [producer |-> p, old |-> st.lastACK[p], new |-> e.producerID])]

\* the inner loop without the check against lastACK
ackEntryNoCheck(st, k) ==
    LET e == st.entries[k]
        p == e.producer
    IN IF p = NoProducer THEN st
       ELSE [entries |-> [st.entries EXCEPT ![k].producer = NoProducer],
             lastACK |-> [st.lastACK EXCEPT ![p] = e.producerID],
             cbs |-> Append(st.cbs, [cb |-> p, count |-> e.producerID - st.lastACK[p]]),
             writes |-> Append(st.writes, [producer |-> p, old |-> st.lastACK[p], new |-> e.producerID])]

ackEntry(st, k) ==
    LET e == st.entries[k]
        p == e.producer
    IN IF p = NoProducer THEN st
       ELSE IF e.producerID <= st.lastACK[p]
       THEN [st EXCEPT !.entries[k].producer = NoProducer]
       ELSE [entries |-> [st.entries EXCEPT ![k].producer = NoProducer],
             lastACK |-> [st.lastACK EXCEPT ![p] = e.producerID],
             cbs |-> Append(st.cbs, [cb |-> p, count |-> e.producerID - st.lastACK[p]]),
             writes |-> Append(st.writes, [producer |-> p, old |-> st.lastACK[p], new |-> e.producerID])]

\* the entries of the batch traversed from first to last
RECURSIVE ackBatchForward(_, _, _)
ackBatchForward(st, b, i) ==
    IF i < 0 THEN st
    ELSE Then(ackBatchForward(st, b, i - 1), LAMBDA t : ackEntry(t, batches[b].start + i))

\* for i := batch.count - 1; i >= 0; i-- { entry := batch.rawEntry(i) ... }
RECURSIVE ackBatch(_, _, _)
ackBatch(st, b, i) ==
    IF i < 0 THEN st
    ELSE Then(ackEntry(st, batches[b].start + i), LAMBDA t : ackBatch(t, b, i - 1))

\* batch := lst.pop(); batchCount++; the loop over the batch's entries
\* s = [st, next, list, batchCount]
ackLoopStep(s) ==
    LET p == pop(s.next, s.list)
    IN [st |-> ackBatch(s.st, p.batch, batches[p.batch].count - 1),
        next |-> p.next, list |-> p.list, batchCount |-> s.batchCount + 1]

\* for !lst.empty() { ... }
RECURSIVE ackLoopOver(_)
ackLoopOver(s) ==
    IF empty(s.list) THEN s ELSE Then(ackLoopStep(s), LAMBDA t : ackLoopOver(t))

\* processACK up to its first channel send: [st, next, list, batchCount]
processACK(nx, lst) ==
    Then(reverse(nx, lst),
         LAMBDA r : ackLoopOver([st |-> [entries |-> entries, lastACK |-> lastACK,
                                         cbs |-> <<>>, writes |-> <<>>],
                                 next |-> r.next, list |-> r.list, batchCount |-> 0]))

\* for !ackedBatches.empty() { releaseBatch(ackedBatches.pop()) }
\* s = [next, list, released]
releaseStep(s) ==
    LET p == pop(s.next, s.list)
    IN [next |-> p.next, list |-> p.list, released |-> Append(s.released, p.batch)]

RECURSIVE releaseLoop(_)
releaseLoop(s) ==
    IF empty(s.list) THEN s ELSE Then(releaseStep(s), LAMBDA t : releaseLoop(t))

\* ---------------------------------------------------------------- package fifo
\* the elements stored
FifoValues == {1, 2}
\* var none T
None == 0

\* FIFO[T]{}
EmptyFIFO == [first |-> NIL, last |-> NIL]

\* Add: [heap, list] after l.Add(value)
Add(hp, l, value) ==
    LET newNode == Len(hp) + 1
        hp1 == Append(hp, [next |-> NIL, value |-> value])
    IN [heap |-> IF l.first = NIL THEN hp1 ELSE [hp1 EXCEPT ![l.last].next = newNode],
        list |-> [first |-> IF l.first = NIL THEN newNode ELSE l.first, last |-> newNode]]

Empty(l) == l.first = NIL

First(hp, l) == IF l.first = NIL THEN None ELSE hp[l.first].value

\* Remove: the list after l.Remove()
Remove(hp, l) ==
    IF l.first # NIL
    THEN LET nf == hp[l.first].next
         IN [first |-> nf, last |-> IF nf = NIL THEN NIL ELSE l.last]
    ELSE l

\* ConsumeFirst: [result, list] after result := l.ConsumeFirst()
ConsumeFirst(hp, l) == [result |-> First(hp, l), list |-> Remove(hp, l)]

\* Concat without the assignment to f.last
ConcatKeepLast(hp, l, list) ==
    IF Empty(list) THEN [heap |-> hp, list |-> l]
    ELSE IF Empty(l) THEN [heap |-> hp, list |-> list]
    ELSE [heap |-> [hp EXCEPT ![l.last].next = list.first], list |-> l]

\* Concat: [heap, list] after l.Concat(list); the argument is a copy of the
\* caller's FIFO, which the call leaves as it was
Concat(hp, l, list) ==
    IF Empty(list) THEN [heap |-> hp, list |-> l]
    ELSE IF Empty(l) THEN [heap |-> hp, list |-> list]
    ELSE [heap |-> [hp EXCEPT ![l.last].next = list.first],
          list |-> [first |-> l.first, last |-> list.last]]

\* the values reached from node n through next
RECURSIVE ValuesFrom(_, _)
ValuesFrom(hp, n) == IF n = NIL THEN <<>> ELSE <<hp[n].value>> \o ValuesFrom(hp, hp[n].next)

Content(hp, l) == ValuesFrom(hp, l.first)

\* nothing allocated, two empty FIFOs
FifoNew ==
    /\ heap = <<>>
    /\ f = EmptyFIFO
    /\ otherList = EmptyFIFO
    /\ moved = FALSE
    /\ fRef = <<>>
    /\ otherRef = <<>>
    /\ got = None
    /\ want = None

\* ---------------------------------------------------------------- initial state
Init ==
    /\ \E ps \in Buffers : entries = MkEntries(ps) /\ published = ps
    /\ lastACK = [p \in Producers |-> 0]
    /\ ackCallback \in BOOLEAN
    /\ batches = <<>>
    /\ next = [b \in 1..MaxBatches |-> NIL]
    /\ doneChan = [b \in 1..MaxBatches |-> FALSE]
    /\ consumedBatches = EmptyList
    /\ ctxDone = FALSE
    /\ pendingBatches = EmptyList
    /\ seqpc = "select"
    /\ ackedBatches = EmptyList
    /\ N = 0
    /\ batchCount = 0
    /\ ackCallbacks = <<>>
    /\ deleted = <<>>
    /\ released = <<>>
    /\ callbackChan = <<>>
    /\ callbackChanClosed = FALSE
    /\ workerpc = "run"
    /\ pendingCallbacks = <<>>
    /\ callbackInProgress = FALSE
    /\ runners = <<>>
    /\ appendOrder = <<>>
    /\ advLog = <<>>
    /\ aggLog = <<>>
    /\ ackWrites = <<>>
    /\ submitted = <<>>
    /\ cbStarted = <<>>
    /\ cbReturned = 0
    /\ unblocked = 0
    /\ doneEarly = {}
    /\ FifoNew

\* ---------------------------------------------------------------- run loop, consumers
ConsumedEnd ==
    IF batches = <<>> THEN 0
    ELSE LET ends == {batches[b].start + batches[b].count - 1 : b \in 1..Len(batches)}
         IN CHOOSE m \in ends : \A x \in ends : x <= m

\* The numbers of entries a consumer asks for: an empty batch, and the sizes
\* that split the five-entry buffer into a batch of three and a batch of two.
BatchSizes == {0, 2, 3}

\* The shapes the next batch may take: the run of entries after those already
\* handed out, or a second view of a tail of the newest batch while the ack
\* loop has not popped that batch.
BatchShapes ==
    {[start |-> ConsumedEnd + 1, count |-> c] :
        c \in BatchSizes \cap 0..(Len(entries) - ConsumedEnd)}
    \cup
    (IF batches # <<>> /\ Len(batches) \notin Range(Retired)
     THEN {[start |-> s, count |-> ConsumedEnd - s + 1] :
              s \in (batches[Len(batches)].start + 1)..ConsumedEnd}
     ELSE {})

\* The run loop creates a batch for a consumer and queues it for the ack loop.
CreateBatch ==
    /\ ~ctxDone
    /\ Len(batches) < MaxBatches
    /\ \E shape \in BatchShapes :
          LET b == Len(batches) + 1
              a == append(next, consumedBatches, b)
          IN /\ batches' = Append(batches, shape)
             /\ consumedBatches' = a.list
             /\ next' = a.next
    /\ UNCHANGED <<entries, lastACK, ackCallback, doneChan, ctxDone>>
    /\ UNCHANGED <<seqVars, cwVars, histVars>>
    /\ UNCHANGED fifoVars

\* A consumer calls Done on batch b.
Done(b) ==
    /\ ~doneChan[b]
    /\ doneChan' = [doneChan EXCEPT ![b] = TRUE]
    /\ doneEarly' = IF \E a \in 1..(b - 1) : ~doneChan[a]
                    THEN doneEarly \cup {b} ELSE doneEarly
    /\ UNCHANGED <<entries, lastACK, ackCallback, batches, next, consumedBatches, ctxDone>>
    /\ UNCHANGED <<seqVars, cwVars>>
    /\ UNCHANGED <<appendOrder, advLog, aggLog, ackWrites, submitted, cbStarted, cbReturned, unblocked, published>>
    /\ UNCHANGED fifoVars

\* The consumers finish in any order.
BatchDone == \E b \in 1..Len(batches) : Done(b)

\* The consumers finish in the order they were given their batches.
BatchDoneInOrder ==
    \E b \in 1..Len(batches) : (\A a \in 1..(b - 1) : doneChan[a]) /\ Done(b)

\* The queue is closed.
Cancel ==
    /\ ~ctxDone
    /\ ctxDone' = TRUE
    /\ UNCHANGED <<entries, lastACK, ackCallback, batches, next, doneChan, consumedBatches>>
    /\ UNCHANGED <<seqVars, cwVars, histVars>>
    /\ UNCHANGED fifoVars

\* ---------------------------------------------------------------- ackLoop.run
\* if callback := l.broker.ackCallback; callback != nil { callback(count) }
callAckCallbackNever(adv, count) == aggLog

callAckCallback(adv, count) ==
    IF ackCallback THEN Append(aggLog, [adv |-> adv, count |-> count]) ELSE aggLog

\* the loop left on cancellation without closing callbackChan
SeqShutdownNoClose ==
    /\ seqpc = "select"
    /\ ctxDone
    /\ seqpc' = "exited"
    /\ UNCHANGED <<pendingBatches, ackedBatches, N, batchCount, ackCallbacks, deleted, released>>
    /\ UNCHANGED cwVars
    /\ UNCHANGED <<envVars, histVars>>
    /\ UNCHANGED fifoVars

\* case <-b.ctx.Done()
SeqShutdown ==
    /\ seqpc = "select"
    /\ ctxDone
    /\ callbackChanClosed' = TRUE
    /\ seqpc' = "exited"
    /\ UNCHANGED <<pendingBatches, ackedBatches, N, batchCount, ackCallbacks, deleted, released>>
    /\ UNCHANGED <<callbackChan, workerpc, pendingCallbacks, callbackInProgress, runners>>
    /\ UNCHANGED <<envVars, histVars>>
    /\ UNCHANGED fifoVars

\* chanList taken as the new pending list: l.pendingBatches = chanList
SeqRecvConsumedReplace ==
    /\ seqpc = "select"
    /\ ~empty(consumedBatches)
    /\ pendingBatches' = consumedBatches
    /\ appendOrder' = appendOrder \o ListSeq(next, consumedBatches)
    /\ consumedBatches' = EmptyList
    /\ UNCHANGED <<entries, lastACK, ackCallback, batches, next, doneChan, ctxDone>>
    /\ UNCHANGED <<seqpc, ackedBatches, N, batchCount, ackCallbacks, deleted, released>>
    /\ UNCHANGED <<advLog, aggLog, ackWrites, submitted, cbStarted, cbReturned, unblocked, doneEarly, published>>
    /\ UNCHANGED fifoVars
    /\ UNCHANGED cwVars

\* case chanList := <-b.consumedChan
SeqRecvConsumed ==
    /\ seqpc = "select"
    /\ ~empty(consumedBatches)
    /\ LET c == concat(next, pendingBatches, consumedBatches)
       IN /\ pendingBatches' = c.list
          /\ next' = c.next
    /\ appendOrder' = appendOrder \o ListSeq(next, consumedBatches)
    /\ consumedBatches' = EmptyList
    /\ UNCHANGED <<entries, lastACK, ackCallback, batches, doneChan, ctxDone>>
    /\ UNCHANGED <<seqpc, ackedBatches, N, batchCount, ackCallbacks, deleted, released>>
    /\ UNCHANGED <<advLog, aggLog, ackWrites, submitted, cbStarted, cbReturned, unblocked, doneEarly, published>>
    /\ UNCHANGED fifoVars
    /\ UNCHANGED cwVars

\* case <-nextBatchChan: handleBatchSig, up to the first channel send of
\* processACK, or to its return when count is 0
SeqHandleBatchSig ==
    /\ seqpc = "select"
    /\ nextBatchChannel(pendingBatches) # NIL
    /\ doneChan[nextBatchChannel(pendingBatches)]
    /\ \E c \in {collectAcked(next, pendingBatches, doneChan)} :
       \E popped \in {ListSeq(c.next, c.acked)} :
       \E count \in {SumSeq([i \in 1..Len(popped) |-> batches[popped[i]].count])} :
       \E r \in {processACK(c.next, c.acked)} :
       \E rel \in {releaseLoop([next |-> c.next, list |-> c.acked, released |-> released])} :
          /\ pendingBatches' = c.pending
          /\ IF count > 0
             THEN /\ aggLog' = callAckCallback(Len(advLog) + 1, count)
                  /\ entries' = r.st.entries
                  /\ lastACK' = r.st.lastACK
                  /\ ackCallbacks' = r.st.cbs
                  /\ ackWrites' = ackWrites \o r.st.writes
                  /\ batchCount' = r.batchCount
                  /\ next' = r.next
                  /\ N' = count
                  /\ ackedBatches' = c.acked
                  /\ seqpc' = "sendDelete"
                  /\ released' = released
                  /\ advLog' = Append(advLog, [ledger |-> ListSeq(next, pendingBatches),
                                               batches |-> popped, count |-> count,
                                               cbs |-> r.st.cbs, before |-> lastACK,
                                               after |-> r.st.lastACK])
             ELSE /\ next' = rel.next
                  /\ ackedBatches' = rel.list
                  /\ released' = rel.released
                  /\ seqpc' = "select"
                  /\ advLog' = Append(advLog, [ledger |-> ListSeq(next, pendingBatches),
                                               batches |-> popped, count |-> count,
                                               cbs |-> <<>>, before |-> lastACK,
                                               after |-> lastACK])
                  /\ UNCHANGED <<aggLog, entries, lastACK, ackCallbacks, ackWrites, batchCount, N>>
    /\ UNCHANGED <<ackCallback, batches, doneChan, consumedBatches, ctxDone>>
    /\ UNCHANGED <<deleted, appendOrder, submitted, cbStarted, cbReturned, unblocked, doneEarly, published>>
    /\ UNCHANGED fifoVars
    /\ UNCHANGED cwVars

\* The run loop receives from deleteChan whenever the ack loop sends on it.
RunLoopReceives == TRUE

\* l.broker.deleteChan <- N, received by the run loop; then unblockCPU
\* the number of batches sent in place of the number of entries
SeqSendDeleteBatchCount ==
    /\ seqpc = "sendDelete"
    /\ RunLoopReceives
    /\ deleted' = Append(deleted, batchCount)
    /\ unblocked' = IF batchCount > 1 THEN unblocked + 1 ELSE unblocked
    /\ seqpc' = "sendWave"
    /\ UNCHANGED <<pendingBatches, ackedBatches, N, batchCount, ackCallbacks, released>>
    /\ UNCHANGED <<appendOrder, advLog, aggLog, ackWrites, submitted, cbStarted, cbReturned, doneEarly, published>>
    /\ UNCHANGED fifoVars
    /\ UNCHANGED <<envVars, cwVars>>

SeqSendDelete ==
    /\ seqpc = "sendDelete"
    /\ RunLoopReceives
    /\ deleted' = Append(deleted, N)
    /\ unblocked' = IF batchCount > 1 THEN unblocked + 1 ELSE unblocked
    /\ seqpc' = "sendWave"
    /\ UNCHANGED <<pendingBatches, ackedBatches, N, batchCount, ackCallbacks, released>>
    /\ UNCHANGED <<appendOrder, advLog, aggLog, ackWrites, submitted, cbStarted, cbReturned, doneEarly, published>>
    /\ UNCHANGED fifoVars
    /\ UNCHANGED <<envVars, cwVars>>

\* l.callbackWorker.callbackChan <- ackCallbacks; processACK returns and
\* handleBatchSig releases what its list still holds
\* the wave sent before the count is sent on deleteChan
SeqSendWaveBeforeDelete ==
    /\ seqpc = "sendDelete"
    /\ Len(callbackChan) < CallbackChanCap
    /\ \E wave \in {[id |-> Len(submitted) + 1, cbs |-> ackCallbacks]} :
       \E rel \in {releaseLoop([next |-> next, list |-> ackedBatches, released |-> released])} :
          /\ callbackChan' = Append(callbackChan, wave)
          /\ submitted' = Append(submitted, wave)
          /\ next' = rel.next
          /\ ackedBatches' = rel.list
          /\ released' = rel.released
    /\ seqpc' = "sendWave"
    /\ UNCHANGED <<pendingBatches, N, batchCount, ackCallbacks, deleted>>
    /\ UNCHANGED <<entries, lastACK, ackCallback, batches, doneChan, consumedBatches, ctxDone>>
    /\ UNCHANGED <<callbackChanClosed, workerpc, pendingCallbacks, callbackInProgress, runners>>
    /\ UNCHANGED <<appendOrder, advLog, aggLog, ackWrites, cbStarted, cbReturned, unblocked, doneEarly, published>>
    /\ UNCHANGED fifoVars

SeqSendWave ==
    /\ seqpc = "sendWave"
    /\ Len(callbackChan) < CallbackChanCap
    /\ \E wave \in {[id |-> Len(submitted) + 1, cbs |-> ackCallbacks]} :
       \E rel \in {releaseLoop([next |-> next, list |-> ackedBatches, released |-> released])} :
          /\ callbackChan' = Append(callbackChan, wave)
          /\ submitted' = Append(submitted, wave)
          /\ next' = rel.next
          /\ ackedBatches' = rel.list
          /\ released' = rel.released
    /\ seqpc' = "select"
    /\ UNCHANGED <<pendingBatches, N, batchCount, ackCallbacks, deleted>>
    /\ UNCHANGED <<entries, lastACK, ackCallback, batches, doneChan, consumedBatches, ctxDone>>
    /\ UNCHANGED <<callbackChanClosed, workerpc, pendingCallbacks, callbackInProgress, runners>>
    /\ UNCHANGED <<appendOrder, advLog, aggLog, ackWrites, cbStarted, cbReturned, unblocked, doneEarly, published>>
    /\ UNCHANGED fifoVars

\* ---------------------------------------------------------------- callbackWorker.run
\* go func() { for _, cb := range wave { cb() }; cw.callbacksDone <- struct{}{} }()
\* the wave ranged over from its last callback to its first
StartRunnerReversed(wave) ==
    Append(runners, [wave |-> [id |-> wave.id,
                               cbs |-> [i \in 1..Len(wave.cbs) |-> wave.cbs[Len(wave.cbs) + 1 - i]]],
                     i |-> 1, inCb |-> FALSE])

StartRunner(wave) == Append(runners, [wave |-> wave, i |-> 1, inCb |-> FALSE])

\* the index of a runner blocked on cw.callbacksDone <- struct{}{}
AtDone(r) == runners[r].i > Len(runners[r].wave.cbs)

RemoveAt(s, r) == SubSeq(s, 1, r - 1) \o SubSeq(s, r + 1, Len(s))

\* case newCallbacks, ok := <-cw.callbackChan, with ok
\* every wave started at once
WorkerRecvWaveEager ==
    /\ workerpc = "run"
    /\ callbackChan # <<>>
    /\ callbackChan' = Tail(callbackChan)
    /\ callbackInProgress' = TRUE
    /\ runners' = StartRunner(Head(callbackChan))
    /\ UNCHANGED <<callbackChanClosed, workerpc, pendingCallbacks>>
    /\ UNCHANGED <<envVars, seqVars, histVars>>
    /\ UNCHANGED fifoVars

\* the worker running the wave itself: no receive while a wave is in progress
WorkerRecvWaveInline ==
    /\ workerpc = "run"
    /\ callbackChan # <<>>
    /\ ~callbackInProgress
    /\ callbackChan' = Tail(callbackChan)
    /\ callbackInProgress' = TRUE
    /\ runners' = StartRunner(Head(callbackChan))
    /\ UNCHANGED <<callbackChanClosed, workerpc, pendingCallbacks>>
    /\ UNCHANGED <<envVars, seqVars, histVars>>
    /\ UNCHANGED fifoVars

\* callbackInProgress never set: a wave received while another runs is started too
WorkerRecvWaveNoFlag ==
    /\ workerpc = "run"
    /\ callbackChan # <<>>
    /\ callbackChan' = Tail(callbackChan)
    /\ IF ~callbackInProgress
       THEN /\ runners' = StartRunner(Head(callbackChan))
            /\ UNCHANGED <<pendingCallbacks, callbackInProgress>>
       ELSE /\ pendingCallbacks' = Append(pendingCallbacks, Head(callbackChan))
            /\ UNCHANGED <<callbackInProgress, runners>>
    /\ UNCHANGED <<callbackChanClosed, workerpc>>
    /\ UNCHANGED <<envVars, seqVars, histVars>>
    /\ UNCHANGED fifoVars

WorkerRecvWave ==
    /\ workerpc = "run"
    /\ callbackChan # <<>>
    /\ callbackChan' = Tail(callbackChan)
    /\ IF ~callbackInProgress
       THEN /\ callbackInProgress' = TRUE
            /\ runners' = StartRunner(Head(callbackChan))
            /\ UNCHANGED pendingCallbacks
       ELSE /\ pendingCallbacks' = Append(pendingCallbacks, Head(callbackChan))
            /\ UNCHANGED <<callbackInProgress, runners>>
    /\ UNCHANGED <<callbackChanClosed, workerpc>>
    /\ UNCHANGED <<envVars, seqVars, histVars>>
    /\ UNCHANGED fifoVars

\* case newCallbacks, ok := <-cw.callbackChan, with !ok: return
WorkerRecvClosed ==
    /\ workerpc = "run"
    /\ callbackChan = <<>>
    /\ callbackChanClosed
    /\ workerpc' = "exited"
    /\ UNCHANGED <<callbackChan, callbackChanClosed, pendingCallbacks, callbackInProgress, runners>>
    /\ UNCHANGED <<envVars, seqVars, histVars>>
    /\ UNCHANGED fifoVars

\* case <-cw.callbacksDone that goes idle whatever is queued
WorkerRecvDoneIdle ==
    /\ workerpc = "run"
    /\ \E r \in 1..Len(runners) :
          /\ AtDone(r)
          /\ callbackInProgress' = FALSE
          /\ runners' = RemoveAt(runners, r)
          /\ UNCHANGED pendingCallbacks
    /\ UNCHANGED <<callbackChan, callbackChanClosed, workerpc>>
    /\ UNCHANGED <<envVars, seqVars, histVars>>
    /\ UNCHANGED fifoVars

\* case <-cw.callbacksDone, meeting the send of runner r
WorkerRecvDone ==
    /\ workerpc = "run"
    /\ \E r \in 1..Len(runners) :
          /\ AtDone(r)
          /\ IF Len(pendingCallbacks) > 0
             THEN /\ pendingCallbacks' = Tail(pendingCallbacks)
                  /\ runners' = RemoveAt(StartRunner(Head(pendingCallbacks)), r)
                  /\ UNCHANGED callbackInProgress
             ELSE /\ callbackInProgress' = FALSE
                  /\ runners' = RemoveAt(runners, r)
                  /\ UNCHANGED pendingCallbacks
    /\ UNCHANGED <<callbackChan, callbackChanClosed, workerpc>>
    /\ UNCHANGED <<envVars, seqVars, histVars>>
    /\ UNCHANGED fifoVars

\* a wave runner calls cb()
RunnerCall ==
    /\ \E r \in 1..Len(runners) :
          /\ ~AtDone(r)
          /\ ~runners[r].inCb
          /\ runners' = [runners EXCEPT ![r].inCb = TRUE]
          /\ cbStarted' = Append(cbStarted,
                [wave |-> runners[r].wave.id, idx |-> runners[r].i,
                 cb |-> runners[r].wave.cbs[runners[r].i].cb,
                 count |-> runners[r].wave.cbs[runners[r].i].count])
    /\ UNCHANGED <<callbackChan, callbackChanClosed, workerpc, pendingCallbacks, callbackInProgress>>
    /\ UNCHANGED <<appendOrder, advLog, aggLog, ackWrites, submitted, cbReturned, unblocked, doneEarly, published>>
    /\ UNCHANGED fifoVars
    /\ UNCHANGED <<envVars, seqVars>>

\* the producer's callback returns
RunnerReturn ==
    /\ \E r \in 1..Len(runners) :
          /\ runners[r].inCb
          /\ runners' = [runners EXCEPT ![r].inCb = FALSE, ![r].i = @ + 1]
    /\ cbReturned' = cbReturned + 1
    /\ UNCHANGED <<callbackChan, callbackChanClosed, workerpc, pendingCallbacks, callbackInProgress>>
    /\ UNCHANGED <<appendOrder, advLog, aggLog, ackWrites, submitted, cbStarted, unblocked, doneEarly, published>>
    /\ UNCHANGED fifoVars
    /\ UNCHANGED <<envVars, seqVars>>

\* ---------------------------------------------------------------- specification
Next ==
    \/ CreateBatch
    \/ BatchDone
    \/ Cancel
    \/ SeqShutdown
    \/ SeqRecvConsumed
    \/ SeqHandleBatchSig
    \/ SeqSendDelete
    \/ SeqSendWave
    \/ WorkerRecvWave
    \/ WorkerRecvClosed
    \/ WorkerRecvDone
    \/ RunnerCall
    \/ RunnerReturn

Spec == Init /\ [][Next]_vars

\* ---------------------------------------------------------------- scheduling
\* The ack loop and the receivers of its two sends are scheduled: the run loop
\* receives from deleteChan, callbackWorker.run receives from callbackChan, and
\* a select whose ctx.Done case is ready again and again takes it in the end.
\* Nothing makes a callback return.
SeqFairSpec ==
    /\ Init
    /\ [][Next]_vars
    /\ WF_vars(SeqRecvConsumed)
    /\ WF_vars(SeqHandleBatchSig)
    /\ WF_vars(SeqSendDelete)
    /\ WF_vars(SeqSendWave)
    /\ SF_vars(SeqShutdown)
    /\ WF_vars(WorkerRecvWave)

\* The queue is never closed and no callback is ever called: the run loop
\* creates batches, the consumers complete them in any order, before or after
\* the ack loop receives them.
RetireNext ==
    \/ CreateBatch
    \/ BatchDone
    \/ SeqRecvConsumed
    \/ SeqHandleBatchSig
    \/ SeqSendDelete
    \/ SeqSendWave
    \/ WorkerRecvWave

RetireSpec ==
    /\ Init
    /\ [][RetireNext]_vars
    /\ WF_vars(SeqRecvConsumed)
    /\ WF_vars(SeqHandleBatchSig)
    /\ WF_vars(SeqSendDelete)
    /\ WF_vars(SeqSendWave)
    /\ WF_vars(WorkerRecvWave)

\* ---------------------------------------------------------------- a callback that never returns
\* Enough one-entry batches of one producer to fill callbackChan and two more,
\* created by the run loop and not yet handed to the ack loop.
StuckBatches == CallbackChanCap + 2

StuckInit ==
    /\ published = [k \in 1..StuckBatches |-> 1]
    /\ entries = MkEntries(published)
    /\ lastACK = [p \in Producers |-> 0]
    /\ ackCallback = FALSE
    /\ batches = [b \in 1..StuckBatches |-> [start |-> b, count |-> 1]]
    /\ next = [b \in 1..StuckBatches |-> IF b < StuckBatches THEN b + 1 ELSE NIL]
    /\ doneChan = [b \in 1..StuckBatches |-> FALSE]
    /\ consumedBatches = [head |-> 1, tail |-> StuckBatches]
    /\ ctxDone = FALSE
    /\ pendingBatches = EmptyList
    /\ seqpc = "select"
    /\ ackedBatches = EmptyList
    /\ N = 0
    /\ batchCount = 0
    /\ ackCallbacks = <<>>
    /\ deleted = <<>>
    /\ released = <<>>
    /\ callbackChan = <<>>
    /\ callbackChanClosed = FALSE
    /\ workerpc = "run"
    /\ pendingCallbacks = <<>>
    /\ callbackInProgress = FALSE
    /\ runners = <<>>
    /\ appendOrder = <<>>
    /\ advLog = <<>>
    /\ aggLog = <<>>
    /\ ackWrites = <<>>
    /\ submitted = <<>>
    /\ cbStarted = <<>>
    /\ cbReturned = 0
    /\ unblocked = 0
    /\ doneEarly = {}
    /\ FifoNew

StuckNext ==
    \/ BatchDoneInOrder
    \/ SeqRecvConsumed
    \/ SeqHandleBatchSig
    \/ SeqSendDelete
    \/ SeqSendWave
    \/ WorkerRecvWave
    \/ RunnerCall

\* The first callback that is called never returns (no step returns from a
\* callback). Every goroutine that can take a step is scheduled, and the run
\* loop receives from deleteChan.
StuckSpec ==
    /\ StuckInit
    /\ [][StuckNext]_vars
    /\ WF_vars(SeqRecvConsumed)
    /\ WF_vars(SeqHandleBatchSig)
    /\ WF_vars(SeqSendDelete)
    /\ WF_vars(SeqSendWave)
    /\ WF_vars(WorkerRecvWave)

\* ---------------------------------------------------------------- callbacks that return
\* The same batches, with every callback returning and the queue never closed:
\* the callback worker and the wave runners are scheduled.
DrainNext ==
    \/ BatchDoneInOrder
    \/ SeqRecvConsumed
    \/ SeqHandleBatchSig
    \/ SeqSendDelete
    \/ SeqSendWave
    \/ WorkerRecvWave
    \/ WorkerRecvDone
    \/ RunnerCall
    \/ RunnerReturn

DrainSpec ==
    /\ StuckInit
    /\ [][DrainNext]_vars
    /\ WF_vars(WorkerRecvWave)
    /\ WF_vars(WorkerRecvDone)
    /\ WF_vars(RunnerCall)
    /\ WF_vars(RunnerReturn)

\* ---------------------------------------------------------------- a user of package fifo
queueVars == <<envVars, seqVars, cwVars, appendOrder, advLog, aggLog, ackWrites, submitted,
               cbStarted, cbReturned, unblocked, doneEarly, published>>

\* f.Add(v)
FifoAdd ==
    /\ Len(heap) < MaxNodes
    /\ \E v \in FifoValues :
          LET a == Add(heap, f, v)
          IN /\ heap' = a.heap
             /\ f' = a.list
             /\ fRef' = Append(fRef, v)
    /\ UNCHANGED <<otherList, moved, otherRef, got, want>>
    /\ UNCHANGED queueVars

\* other.Add(v), while the user owns other
FifoAddOther ==
    /\ Len(heap) < MaxNodes
    /\ ~moved
    /\ \E v \in FifoValues :
          LET a == Add(heap, otherList, v)
          IN /\ heap' = a.heap
             /\ otherList' = a.list
             /\ otherRef' = Append(otherRef, v)
    /\ UNCHANGED <<f, moved, fRef, got, want>>
    /\ UNCHANGED queueVars

\* f.First()
FifoFirst ==
    /\ got' = First(heap, f)
    /\ want' = IF fRef = <<>> THEN None ELSE Head(fRef)
    /\ UNCHANGED <<heap, f, otherList, moved, fRef, otherRef>>
    /\ UNCHANGED queueVars

\* f.ConsumeFirst()
FifoConsumeFirst ==
    /\ LET c == ConsumeFirst(heap, f)
       IN /\ got' = c.result
          /\ f' = c.list
    /\ want' = IF fRef = <<>> THEN None ELSE Head(fRef)
    /\ fRef' = IF fRef = <<>> THEN <<>> ELSE Tail(fRef)
    /\ UNCHANGED <<heap, otherList, moved, otherRef>>
    /\ UNCHANGED queueVars

\* f.Remove()
FifoRemove ==
    /\ f' = Remove(heap, f)
    /\ fRef' = IF fRef = <<>> THEN <<>> ELSE Tail(fRef)
    /\ UNCHANGED <<heap, otherList, moved, otherRef, got, want>>
    /\ UNCHANGED queueVars

\* f.Concat(other): f takes ownership of other's contents
FifoConcat ==
    /\ ~moved
    /\ LET c == Concat(heap, f, otherList)
       IN /\ heap' = c.heap
          /\ f' = c.list
    /\ fRef' = fRef \o otherRef
    /\ moved' = TRUE
    /\ UNCHANGED <<otherList, otherRef, got, want>>
    /\ UNCHANGED queueVars

\* the user drops the FIFO it gave away and starts a new one
FifoNewOther ==
    /\ moved
    /\ otherList' = EmptyFIFO
    /\ otherRef' = <<>>
    /\ moved' = FALSE
    /\ UNCHANGED <<heap, f, fRef, got, want>>
    /\ UNCHANGED queueVars

FifoNext ==
    \/ FifoAdd
    \/ FifoAddOther
    \/ FifoFirst
    \/ FifoConsumeFirst
    \/ FifoRemove
    \/ FifoConcat
    \/ FifoNewOther

FifoInit == Init /\ ~ackCallback /\ Len(published) = 5

FifoSpec == FifoInit /\ [][FifoNext]_vars

\* ---------------------------------------------------------------- properties
\* the entries of the buffer that the batches of bs view
Covered(bs) == UNION {Range(BatchEntries(bs[i])) : i \in 1..Len(bs)}

CountsOf(bs) == [i \in 1..Len(bs) |-> batches[bs[i]].count]

\* the thunks of the waves ws, in order, each with its wave and its place in it
RECURSIVE ThunksOf(_)
ThunksOf(ws) ==
    IF ws = <<>> THEN <<>>
    ELSE [i \in 1..Len(Head(ws).cbs) |->
             [wave |-> Head(ws).id, idx |-> i,
              cb |-> Head(ws).cbs[i].cb, count |-> Head(ws).cbs[i].count]]
         \o ThunksOf(Tail(ws))

\* what producer p was credited by the thunks ts
RECURSIVE Credit(_, _)
Credit(ts, p) ==
    IF ts = <<>> THEN 0
    ELSE (IF Head(ts).cb = p THEN Head(ts).count ELSE 0) + Credit(Tail(ts), p)

\* the ack loop is between two advancements
Quiescent == seqpc \in {"select", "exited"}

\* C1: batches leave the pending list in the order they joined it, and only
\* completed ones: the batches popped so far are a prefix of the batches
\* appended, each with its completion signalled, and a batch that joined the
\* list behind a batch not yet completed is still in the list.
C1_FifoRetirement ==
    /\ IsPrefix(Retired, appendOrder)
    /\ \A b \in Range(Retired) : doneChan[b]
    /\ \A i \in 1..Len(appendOrder) :
          ~doneChan[appendOrder[i]] =>
              \A j \in i..Len(appendOrder) : appendOrder[j] \notin Range(Retired)
    /\ ListSeq(next, pendingBatches) = SubSeq(appendOrder, Len(Retired) + 1, Len(appendOrder))

\* a later batch completed first, and the earlier one was popped before it
C1_Witness ==
    /\ 2 \in doneEarly
    /\ Len(Retired) >= 1
    /\ Retired[1] = 1
    /\ batches[1].count > 0

\* C2: once the ack loop is between advancements and every callback of every
\* wave it sent has returned, each producer has been credited exactly the
\* number of its entries that the popped batches view.
AllWavesExecuted ==
    /\ Quiescent
    /\ cbReturned = Len(ThunksOf(submitted))
    /\ Len(cbStarted) = cbReturned

C2_Conservation ==
    AllWavesExecuted =>
        \A p \in Producers :
            Credit(cbStarted, p) =
                Cardinality({k \in Covered(Retired) : published[k] = p})

C2_Witness ==
    /\ AllWavesExecuted
    /\ Len(submitted) >= 2
    /\ \A p \in Producers : Credit(cbStarted, p) >= 1
    /\ \E k \in Covered(Retired) : published[k] = NoProducer

\* C3: every assignment to a producer's lastACK stores an id strictly greater
\* than the value it replaces, and the assignments to one producer follow each
\* other from 0 up to its lastACK.
WritesOf(p) == SelectSeq(ackWrites, LAMBDA w : w.producer = p)

C3_Monotonic ==
    /\ \A i \in 1..Len(ackWrites) : ackWrites[i].new > ackWrites[i].old
    /\ \A p \in Producers :
          LET ws == WritesOf(p)
          IN /\ \A i \in 1..Len(ws) : ws[i].old = (IF i = 1 THEN 0 ELSE ws[i - 1].new)
             /\ lastACK[p] = (IF ws = <<>> THEN 0 ELSE ws[Len(ws)].new)

C3_Witness ==
    \E p \in Producers : Len(WritesOf(p)) >= 2

\* C4: an entry viewed by two batches is credited once. Over all advancements
\* a producer is credited the number of its distinct entries the popped batches
\* view, and an advancement whose batches view only entries that earlier
\* advancements covered queues no callback and leaves every lastACK as it was.
EarlierBatches(k) == Flatten([j \in 1..(k - 1) |-> advLog[j].batches])

C4_IdempotentOverlap ==
    LET thunks == Flatten([k \in 1..Len(advLog) |-> advLog[k].cbs])
        covered == Covered(Retired)
    IN /\ \A p \in Producers :
             Credit(thunks, p) = Cardinality({e \in covered : published[e] = p})
       /\ \A k \in 1..Len(advLog) :
             Covered(advLog[k].batches) \subseteq Covered(EarlierBatches(k)) =>
                 /\ advLog[k].cbs = <<>>
                 /\ advLog[k].after = advLog[k].before

\* A = {1,2,3} is resolved, then its second view C = {2,3}
C4_Witness ==
    /\ published = <<1, 1, 1, 1, 1>>
    /\ batches = <<[start |-> 1, count |-> 3], [start |-> 2, count |-> 2]>>
    /\ Len(advLog) = 2
    /\ advLog[1].batches = <<1>>
    /\ advLog[1].cbs = <<[cb |-> 1, count |-> 3]>>
    /\ advLog[1].after[1] = 3
    /\ advLog[2].batches = <<2>>
    /\ advLog[2].cbs = <<>>
    /\ lastACK[1] = 3

\* C5: the callbacks started so far are the first callbacks of the waves sent,
\* wave by wave in the order the waves were sent and in the order each wave
\* lists them, and only the newest of them may still be running.
C5_DispatcherOrder ==
    /\ IsPrefix(cbStarted, ThunksOf(submitted))
    /\ cbReturned \in {Len(cbStarted) - 1, Len(cbStarted)}
    /\ cbReturned >= 0

\* a callback of the second wave runs, after a first wave of two callbacks
C5_Witness ==
    /\ Len(submitted) >= 2
    /\ Len(submitted[1].cbs) >= 2
    /\ \E i \in 1..Len(cbStarted) : cbStarted[i].wave = 2

\* C6: at most one wave runner exists, and a wave waiting in pendingCallbacks
\* has started no callback while the runner of an earlier wave exists.
C6_OneWaveAtATime ==
    /\ Len(runners) <= 1
    /\ Cardinality({r \in 1..Len(runners) : ~AtDone(r)}) <= 1
    /\ \A i \in 1..Len(pendingCallbacks) :
          /\ Len(runners) = 1
          /\ runners[1].wave.id < pendingCallbacks[i].id
          /\ \A j \in 1..Len(cbStarted) : cbStarted[j].wave # pendingCallbacks[i].id

\* a wave waits while the wave before it is inside a callback
C6_Witness ==
    /\ Len(pendingCallbacks) >= 1
    /\ Len(runners) = 1
    /\ runners[1].inCb

\* C7: a callback that never returns does not hold up the ack loop. Every
\* batch that is complete, with every batch before it complete, is popped, its
\* count reaches the run loop and the wave crediting it is sent to the
\* callback worker, although nothing makes a callback return.
Reported(b) ==
    /\ b \in Range(Retired)
    /\ SumSeq(deleted) >= b
    /\ Credit(ThunksOf(submitted), 1) >= b

PosAdv == SelectSeq(advLog, LAMBDA a : a.count > 0)

\* the sequence s without its last element while the ack loop has yet to send it
SentOf(s) == IF seqpc = "sendDelete" THEN SubSeq(s, 1, Len(s) - 1) ELSE s

PartialSums(s) == {SumSeq(SubSeq(s, 1, k)) : k \in 0..Len(s)}

\* the single producer published entries 1..5, A = {1,2,3}, B = {4,5}
Scenario8 ==
    /\ published = <<1, 1, 1, 1, 1>>
    /\ batches = <<[start |-> 1, count |-> 3], [start |-> 4, count |-> 2]>>

\* A and B were both in the pending list, B complete before A, when A's signal
\* was handled
Scenario8Handled ==
    /\ Scenario8
    /\ 2 \in doneEarly
    /\ Len(advLog) >= 1
    /\ advLog[1].ledger = <<1, 2>>

\* C8 as stated: in the scenario A is retired alone (deletion 3, delta 3,
\* lastACK 3) and B after it (deletion 2, delta 2, lastACK 5): the deletions
\* reported are 3, then 2.
C8_Original ==
    Scenario8Handled =>
        /\ advLog[1].batches = <<1>>
        /\ advLog[1].cbs = <<[cb |-> 1, count |-> 3]>>
        /\ advLog[1].after[1] = 3
        /\ IsPrefix(deleted, <<3, 2>>)

\* C8 as the code has it: the values sent on deleteChan are positive sums of
\* consecutive runs of the batch counts in the order the batches joined the
\* pending list, and between advancements they add up to the counts of the
\* batches popped. In the scenario nothing is popped until A completes; then A
\* and B are popped in one advancement: one deletion of 5, one callback with
\* delta 5, lastACK 5.
C8_Contiguity ==
    /\ \A j \in 1..Len(deleted) :
          /\ deleted[j] > 0
          /\ SumSeq(SubSeq(deleted, 1, j)) \in PartialSums(CountsOf(appendOrder))
    /\ Quiescent => SumSeq(deleted) = SumSeq(CountsOf(Retired))
    /\ Scenario8 /\ ~doneChan[1] => Retired = <<>> /\ deleted = <<>>
    /\ Scenario8Handled =>
          /\ advLog[1].batches = <<1, 2>>
          /\ advLog[1].cbs = <<[cb |-> 1, count |-> 5]>>
          /\ advLog[1].after[1] = 5
          /\ IsPrefix(deleted, <<5>>)

C8_Witness ==
    /\ Scenario8Handled
    /\ Quiescent
    /\ deleted = <<5>>
    /\ lastACK[1] = 5

C10_Original ==
    ackCallback =>
        aggLog = [k \in 1..Len(advLog) |-> [adv |-> k, count |-> advLog[k].count]]

\* C10 as the code has it: with broker.ackCallback set, it is called exactly
\* once for every advancement that retires at least one entry, with the total
\* count, before the advancement's wave is sent and so before any of its
\* producer callbacks starts; an advancement of count 0 does not call it.
InProcessACK == IF seqpc \in {"sendDelete", "sendWave"} THEN 1 ELSE 0

C10_AggregateAckFirst ==
    /\ ackCallback =>
          /\ Len(aggLog) = Len(PosAdv)
          /\ \A k \in 1..Len(aggLog) :
                /\ aggLog[k].count = PosAdv[k].count
                /\ advLog[aggLog[k].adv] = PosAdv[k]
          /\ Len(aggLog) = Len(submitted) + InProcessACK
          /\ \A i \in 1..Len(cbStarted) : cbStarted[i].wave <= Len(aggLog)
    /\ ~ackCallback => aggLog = <<>>

C10_Witness ==
    /\ ackCallback
    /\ Len(advLog) = 2
    /\ advLog[1].count = 0
    /\ Len(aggLog) = 1
    /\ cbStarted # <<>>

\* the range of ids a started callback credits: the callback is the k-th thunk
\* queued for its producer, and the k-th assignment to that producer's lastACK
\* was made with it (ackloop.go:192-196)
AllThunks == ThunksOf(submitted)

ThunkPos(c) == CHOOSE n \in 1..Len(AllThunks) : AllThunks[n] = c

RangeOfCall(c) ==
    LET n == ThunkPos(c)
        k == Cardinality({m \in 1..n : AllThunks[m].cb = c.cb})
    IN WritesOf(c.cb)[k]

\* C11: a producer's callbacks are called in increasing order of the ids they
\* credit: of two callbacks of one producer, the one called first credits ids
\* up to at most where the range of the one called later begins, and each
\* credits a non-empty range of exactly its count.
C11_ProducerOrder ==
    /\ \A i \in 1..Len(cbStarted) :
          /\ cbStarted[i] \in Range(AllThunks)
          /\ RangeOfCall(cbStarted[i]).new - RangeOfCall(cbStarted[i]).old = cbStarted[i].count
          /\ cbStarted[i].count > 0
    /\ \A i, j \in 1..Len(cbStarted) :
          i < j /\ cbStarted[i].cb = cbStarted[j].cb =>
              RangeOfCall(cbStarted[i]).new <= RangeOfCall(cbStarted[j]).old

\* one producer was called for two waves
C11_Witness ==
    \E i, j \in 1..Len(cbStarted) :
        /\ i < j
        /\ cbStarted[i].cb = cbStarted[j].cb
        /\ cbStarted[i].wave < cbStarted[j].wave

\* C12: callbackWorker.run does not return while a wave is executing: once it
\* has returned, every wave runner that exists has called and returned from
\* every callback of its wave.
C12_FinishInFlightWave ==
    workerpc = "exited" => \A r \in 1..Len(runners) : AtDone(r)

\* the advancements whose count has been sent on deleteChan, or had none to send
DeletionDone(k) ==
    \/ advLog[k].count = 0
    \/ k < Len(advLog)
    \/ seqpc # "sendDelete"

C17_ReleasedOnce ==
    Quiescent =>
        /\ \A b \in Range(Retired) : Cardinality({i \in 1..Len(released) : released[i] = b}) = 1
        /\ Range(released) \subseteq Range(Retired)

\* the live entries of producer p that advancement k finds not yet credited
Uncredited(k, p) ==
    {e \in Covered(advLog[k].batches) :
        published[e] = p /\ entries[e].producerID > advLog[k].before[p]}

MaxID(es) == CHOOSE m \in {entries[e].producerID : e \in es} :
                \A e \in es : entries[e].producerID <= m

\* C18: the wave of an advancement holds at most one thunk per producer: one
\* for every producer with an entry not yet credited in the batches popped,
\* its count the highest id of the producer in those batches minus the
\* producer's lastACK before the advancement, and none for any other producer.
C18_OneThunkPerProducer ==
    \A k \in 1..Len(advLog) :
        advLog[k].count > 0 =>
            \A p \in Producers :
                LET mine == {i \in 1..Len(advLog[k].cbs) : advLog[k].cbs[i].cb = p}
                IN IF Uncredited(k, p) = {}
                   THEN mine = {}
                   ELSE /\ Cardinality(mine) = 1
                        /\ \A i \in mine :
                              advLog[k].cbs[i].count =
                                  MaxID(Uncredited(k, p)) - advLog[k].before[p]
                        /\ advLog[k].after[p] = MaxID(Uncredited(k, p))

\* two batches popped together, a producer with an entry in each, two producers
\* credited
C18_Witness ==
    \E k \in 1..Len(advLog) :
        /\ Len(advLog[k].batches) = 2
        /\ Len(advLog[k].cbs) = 2
        /\ \E p \in Producers :
              \A i \in 1..2 : \E e \in Range(BatchEntries(advLog[k].batches[i])) : published[e] = p

\* C20: no wave runner is blocked on its send on callbacksDone once
\* callbackWorker.run, the only receiver, has returned.
C20_NoRunnerLeftBlocked ==
    \A r \in 1..Len(runners) : AtDone(r) => workerpc = "run"

Executed(w) ==
    /\ w <= Len(submitted)
    /\ cbReturned >= Len(ThunksOf(SubSeq(submitted, 1, w)))

\* C14: with the queue not shut down and every callback returning, every wave
\* sent to the callback worker is run to its end; a wave received while another
\* runs waits in pendingCallbacks and is started when that one is done, and
\* with nothing waiting the worker goes idle.
C14_WavesExecuted ==
    /\ \A w \in 1..StuckBatches : (Len(submitted) >= w) ~> Executed(w)
    /\ (pendingCallbacks # <<>>) ~> (pendingCallbacks = <<>>)
    /\ callbackInProgress ~> ~callbackInProgress

\* every batch was retired in an advancement of its own, every wave sent has run
\* and the worker is idle
C14_Witness ==
    /\ Len(submitted) = StuckBatches
    /\ Executed(StuckBatches)
    /\ pendingCallbacks = <<>>
    /\ ~callbackInProgress
    /\ runners = <<>>
    /\ workerpc = "run"

\* C15: with the queue not closed, a batch that is complete, with every batch
\* created before it complete, is popped from the pending list; also when the
\* batch was complete before the ack loop received it.
C15_CompleteIsRetired ==
    \A b \in 1..MaxBatches :
        (b <= Len(batches) /\ \A a \in 1..b : doneChan[a]) ~> (b \in Range(Retired))

\* a batch is complete and the ack loop has not yet received it
C15_Witness ==
    \E b \in 1..Len(batches) :
        /\ doneChan[b]
        /\ b \notin Range(appendOrder)

\* what the reference sequences say of a FIFO l standing for the sequence ref
Refines(l, ref) ==
    /\ Content(heap, l) = ref
    /\ Empty(l) <=> ref = <<>>
    /\ First(heap, l) = (IF ref = <<>> THEN None ELSE Head(ref))
    /\ Empty(l) => l = EmptyFIFO
    /\ ~Empty(l) => heap[l.last].next = NIL

\* C19 as stated: the FIFO stands for the reference sequence after any calls of
\* Add, Concat, Remove and ConsumeFirst, First and ConsumeFirst return the
\* oldest element, and after Concat the other list is empty.
C19_Original ==
    /\ Refines(f, fRef)
    /\ ~moved => Refines(otherList, otherRef)
    /\ got = want
    /\ moved => Empty(otherList)

\* C19 as the code has it: the FIFO stands for the reference sequence after any
\* calls of Add, Concat, Remove and ConsumeFirst (Add appends, Concat appends
\* the elements of the other list in order, Remove and ConsumeFirst drop the
\* head, Remove on an empty FIFO changes nothing), First and ConsumeFirst
\* return the oldest element or the zero value, and Concat leaves the caller's
\* other list as it was: a non-empty list passed to Concat is still non-empty
\* and begins with the same element, its nodes now shared with the receiver.
C19_FifoRefinesSequence ==
    /\ Refines(f, fRef)
    /\ ~moved => Refines(otherList, otherRef)
    /\ got = want
    /\ moved /\ otherRef # <<>> =>
          /\ ~Empty(otherList)
          /\ First(heap, otherList) = Head(otherRef)

\* a non-empty list was concatenated to a non-empty one, and the oldest element
\* of the result was read
C19_Witness ==
    /\ moved
    /\ otherRef # <<>>
    /\ Len(fRef) > Len(otherRef)
    /\ got # None
    /\ got = Head(fRef)

====
